---- MODULE Spec2Model ----
(***************************************************************************)
(* A model of fizzbuzz.py: the RuleSet / Rule rule processor and the       *)
(* FizzBuzz generator built on it.                                         *)
(*                                                                         *)
(* RuleSet.process is modelled statement by statement: pc is the place in  *)
(* the body of process (or "idle" between calls), log the invocations of   *)
(* registered callables made by the current process call, trace those of   *)
(* the whole top-level call.  A registered callable of the engine may      *)
(* raise when invoked; the lambdas of get_fizz_buzz_values never do.       *)
(***************************************************************************)
EXTENDS Integers, Sequences, FiniteSets

\* ------------------------------------------------------------------ bounds
MaxRules == 2
MaxDefaults == 2
MaxBatch == 2

\* ------------------------------------------------- callables and values
\* Values handed to process by a caller of the engine.
Values == {1, 2}

\* Conditions a caller registers: "isOne" is lambda x: x == 1, "any" is
\* lambda x: True.
Conds == {"isOne", "any"}

\* Actions a caller registers (distinct callables).
Acts == {"a", "b"}

\* The action a caller registers together with a condition: every condition
\* comes with an action of its own, as in the docstring of RuleSet.
ActionFor(cond) == IF cond = "isOne" THEN "a" ELSE "b"

\* before_processing / after_processing as passed to RuleSet(...).
BeforeHooks == {"None", "logBefore"}

AfterHooks == {"None", "logAfter"}

\* The lambdas of get_fizz_buzz_values.
FBConds == {"mod15", "mod3", "mod5"}

FBActs == {"FizzBuzz", "Fizz", "Buzz", "ident"}

RangeStart == 1

RangeStop == 101

\* range(1, 101)
RangeValues == [n \in 1..(RangeStop - RangeStart) |-> RangeStart + n - 1]

\* condition(x) for a condition that returns.
Holds(cond, x) ==
  CASE cond = "isOne" -> x = 1
    [] cond = "any" -> TRUE
    [] cond = "mod15" -> x % 15 = 0
    [] cond = "mod3" -> x % 3 = 0
    [] cond = "mod5" -> x % 5 = 0

\* An element of the output list: a string or an integer.
StrVal(s) == [tag |-> "str", n |-> 0, s |-> s]

IntVal(n) == [tag |-> "int", n |-> n, s |-> ""]

\* The side effect of action(x) on the list `output` the lambdas close over.
ActionEffect(act, x, out) ==
  CASE act = "FizzBuzz" -> Append(out, StrVal("FizzBuzz"))
    [] act = "Fizz" -> Append(out, StrVal("Fizz"))
    [] act = "Buzz" -> Append(out, StrVal("Buzz"))
    [] act = "ident" -> Append(out, IntVal(x))
    [] OTHER -> out

\* A callable that may raise when invoked.
MayRaise(who) == who \notin (FBConds \cup FBActs)

\* A faulty test: the hook is called whether set or not.
IsSetAlways(hook) == TRUE

\* Python truthiness of a hook attribute: `if self.before_processing:`.
IsSet(hook) == hook # "None"

\* ------------------------------------------------------------------ state
VARIABLES
  rules,              \* self._rules
  defaults,           \* self._defaults
  before_processing,  \* self.before_processing
  after_processing,   \* self.after_processing
  pc,                 \* place in process, or idle / done / raised
  call,               \* the top-level call in progress
  xs,                 \* the values of the top-level call
  k,                  \* process_many: index in xs of the value being processed
  i,                  \* process: index of `rule` in self._rules
  j,                  \* process: index of `action` in self._defaults
  match_not_found,    \* process: the local match_not_found
  log,                \* invocations made by the current process call
  trace,              \* invocations made by the finished process calls of this top-level call
  output,             \* get_fizz_buzz_values: the list `output`
  exc,                \* the exception that reached the caller
  addCalls,           \* history: the arguments of the add calls, in call order
  defaultCalls        \* history: the arguments of the add_default calls, in call order

vars == <<rules, defaults, before_processing, after_processing, pc, call, xs,
          k, i, j, match_not_found, log, trace, output, exc, addCalls,
          defaultCalls>>

\* What the steps of a call leave alone: the rule set and the history.
ruleSet == <<rules, defaults, before_processing, after_processing, addCalls,
             defaultCalls>>

NoExc == [kind |-> "none", who |-> "none", idx |-> 0, args |-> <<>>]

\* An invocation of a registered callable: which one, at which position of
\* its list, with which arguments.
Event(kind, who, idx, args) == [kind |-> kind, who |-> who, idx |-> idx, args |-> args]

\* Rule.__init__
Rule(condition, action, last) == [condition |-> condition, action |-> action, last |-> last]

\* Rule.matches
Matches(rule, x) == Holds(rule.condition, x)

\* ------------------------------------------------------------ RuleSet
\* RuleSet.__init__
NewRuleSet(before, after) ==
  /\ rules = <<>>
  /\ defaults = <<>>
  /\ before_processing = before
  /\ after_processing = after
  /\ addCalls = <<>>
  /\ defaultCalls = <<>>

Idle ==
  /\ pc = "idle" /\ call = "none" /\ xs = <<>> /\ k = 0 /\ i = 0 /\ j = 0
  /\ match_not_found = TRUE /\ log = <<>> /\ trace = <<>> /\ exc = NoExc

Init ==
  /\ \E b \in BeforeHooks, a \in AfterHooks : NewRuleSet(b, a)
  /\ Idle
  /\ output = <<>>

\* A faulty add: the new rule goes to the front of the list.
AddRulePrepend(rs, condition, action, last) == <<Rule(condition, action, last)>> \o rs

\* self._rules.append(Rule(condition, action, last))
AddRule(rs, condition, action, last) == Append(rs, Rule(condition, action, last))

\* self._defaults.append(action)
AddDefaultAction(ds, action) == Append(ds, action)

\* RuleSet.add
Add(condition, action, last) ==
  /\ pc = "idle"
  /\ rules' = AddRule(rules, condition, action, last)
  /\ addCalls' = Append(addCalls, <<condition, action, last>>)
  /\ UNCHANGED <<defaults, before_processing, after_processing, pc, call, xs,
                 k, i, j, match_not_found, log, trace, output, exc, defaultCalls>>

\* RuleSet.add_default
AddDefault(action) ==
  /\ pc = "idle"
  /\ defaults' = AddDefaultAction(defaults, action)
  /\ defaultCalls' = Append(defaultCalls, action)
  /\ UNCHANGED <<rules, before_processing, after_processing, pc, call, xs,
                 k, i, j, match_not_found, log, trace, output, exc, addCalls>>

\* The value x of the process call in progress.
CurX == xs[k]

\* Entry of process(x): match_not_found = True, then line 140.
EnterProcess ==
  /\ pc' = "before"
  /\ match_not_found' = TRUE
  /\ i' = 0
  /\ j' = 0
  /\ log' = <<>>

\* A caller calls rules.process(x).
CallProcess(x) ==
  /\ pc = "idle"
  /\ call' = "process"
  /\ xs' = <<x>>
  /\ k' = 1
  /\ EnterProcess
  /\ UNCHANGED <<ruleSet, trace, output, exc>>

\* process_many: the index of the first element the for loop takes.
FirstIndex == 1

\* A faulty loop: every other element is skipped.
NextIndexSkip(n) == n + 2

\* process_many: the index the for loop takes after index n.
NextIndex(n) == n + 1

\* A caller calls rules.process_many(vs): the for loop takes its first
\* element and calls process, or ends at once on an empty sequence.
CallProcessMany(vs) ==
  /\ pc = "idle"
  /\ call' = "process_many"
  /\ xs' = vs
  /\ IF FirstIndex <= Len(vs)
       THEN /\ k' = FirstIndex
            /\ EnterProcess
       ELSE /\ k' = 0
            /\ pc' = "done"
            /\ UNCHANGED <<i, j, match_not_found, log>>
  /\ UNCHANGED <<ruleSet, trace, output, exc>>

\* A faulty test: the default actions always run.
RunsDefaultsAlways(notFound) == TRUE

\* A faulty test: the default actions never run.
RunsDefaultsNever(notFound) == FALSE

\* if match_not_found: -- whether the default actions run.
RunsDefaults(notFound) == notFound

\* The invocation process is about to make at pc, or NoExc when the
\* statement at pc invokes nothing.
Invocation ==
  CASE pc = "before" /\ IsSet(before_processing) ->
         Event("before", before_processing, 0, <<CurX>>)
    [] pc = "rules" /\ i <= Len(rules) ->
         Event("condition", rules[i].condition, i, <<CurX>>)
    [] pc = "action" ->
         Event("action", rules[i].action, i, <<CurX>>)
    [] pc = "defaults" /\ RunsDefaults(match_not_found) /\ j <= Len(defaults) ->
         Event("default", defaults[j], j, <<CurX>>)
    [] pc = "after" /\ IsSet(after_processing) ->
         Event("after", after_processing, 0, <<>>)
    [] OTHER -> NoExc

\* if self.before_processing: self.before_processing(x)
Before ==
  /\ pc = "before"
  /\ log' = IF IsSet(before_processing) THEN Append(log, Invocation) ELSE log
  /\ pc' = "rules"
  /\ i' = 1
  /\ UNCHANGED <<ruleSet, call, xs, k, j, match_not_found, trace, output, exc>>

\* for rule in self._rules: if rule.matches(x):
TestRule ==
  /\ pc = "rules"
  /\ IF i <= Len(rules)
       THEN /\ log' = Append(log, Invocation)
            /\ IF Matches(rules[i], CurX)
                 THEN pc' = "action" /\ UNCHANGED <<i, j>>
                 ELSE pc' = "rules" /\ i' = i + 1 /\ UNCHANGED j
       ELSE /\ pc' = "defaults"
            /\ j' = 1
            /\ UNCHANGED <<i, log>>
  /\ UNCHANGED <<ruleSet, call, xs, k, match_not_found, trace, output, exc>>

\* A faulty loop: `last` is ignored.
AfterMatchNoBreak(rule) == "rules"

\* A faulty loop: the first match ends the loop, `last` or not.
AfterMatchAlwaysBreak(rule) == "defaults"

\* A faulty loop: a `last` match returns from process instead of leaving
\* the loop.
AfterMatchReturn(rule) == IF rule.last THEN "return" ELSE "rules"

\* if rule.last: break -- the place process goes to after the action of a
\* matching rule: out of the loop, or on to the next rule.
AfterMatch(rule) == IF rule.last THEN "defaults" ELSE "rules"

\* rule.action(x); match_not_found = False; if rule.last: break
RunAction ==
  /\ pc = "action"
  /\ log' = Append(log, Invocation)
  /\ output' = ActionEffect(rules[i].action, CurX, output)
  /\ match_not_found' = FALSE
  /\ pc' = AfterMatch(rules[i])
  /\ IF AfterMatch(rules[i]) = "defaults"
       THEN j' = 1 /\ UNCHANGED i
       ELSE i' = i + 1 /\ UNCHANGED j
  /\ UNCHANGED <<ruleSet, call, xs, k, trace, exc>>

\* if match_not_found: for action in self._defaults: action(x)
Defaults ==
  /\ pc = "defaults"
  /\ IF RunsDefaults(match_not_found) /\ j <= Len(defaults)
       THEN /\ log' = Append(log, Invocation)
            /\ output' = ActionEffect(defaults[j], CurX, output)
            /\ j' = j + 1
            /\ pc' = "defaults"
       ELSE /\ pc' = "after"
            /\ UNCHANGED <<log, output, j>>
  /\ UNCHANGED <<ruleSet, call, xs, k, i, match_not_found, trace, exc>>

\* if self.after_processing: self.after_processing()
After ==
  /\ pc = "after"
  /\ log' = IF IsSet(after_processing) THEN Append(log, Invocation) ELSE log
  /\ pc' = "return"
  /\ UNCHANGED <<ruleSet, call, xs, k, i, j, match_not_found, trace, output, exc>>

\* process returns: to the caller, or to the for loop of process_many,
\* which takes the next element or ends.
Return ==
  /\ pc = "return"
  /\ trace' = trace \o log
  /\ IF call = "process_many" /\ NextIndex(k) <= Len(xs)
       THEN /\ k' = NextIndex(k)
            /\ EnterProcess
       ELSE /\ pc' = "done"
            /\ log' = <<>>
            /\ UNCHANGED <<k, i, j, match_not_found>>
  /\ UNCHANGED <<ruleSet, call, xs, output, exc>>

\* A faulty process_many: it catches the exception and goes on.
OnRaiseSwallow(c) == IF c = "process_many" THEN "return" ELSE "raised"

\* Where control goes when a callable raises inside process: neither
\* process nor process_many has a handler, so out of the top-level call.
OnRaise(c) == "raised"

\* The invoked callable raises.
Raise ==
  /\ pc \in {"before", "rules", "action", "defaults", "after"}
  /\ Invocation # NoExc
  /\ MayRaise(Invocation.who)
  /\ log' = Append(log, Invocation)
  /\ exc' = Invocation
  /\ pc' = OnRaise(call)
  /\ UNCHANGED <<ruleSet, call, xs, k, i, j, match_not_found, trace, output>>

\* The caller has the result (or the exception) of the top-level call.
Finish ==
  /\ pc \in {"done", "raised"}
  /\ pc' = "idle"
  /\ call' = "none"
  /\ xs' = <<>>
  /\ k' = 0
  /\ i' = 0
  /\ j' = 0
  /\ match_not_found' = TRUE
  /\ log' = <<>>
  /\ trace' = <<>>
  /\ exc' = NoExc
  /\ UNCHANGED <<ruleSet, output>>

\* Sequences over S of length at most n.
SeqsUpTo(S, n) == UNION {[1..m -> S] : m \in 0..n}

Next ==
  \/ \E c \in Conds, l \in BOOLEAN :
       Len(rules) < MaxRules /\ Add(c, ActionFor(c), l)
  \/ \E a \in Acts : Len(defaults) < MaxDefaults /\ AddDefault(a)
  \/ \E x \in Values : CallProcess(x)
  \/ \E vs \in SeqsUpTo(Values, MaxBatch) : CallProcessMany(vs)
  \/ Before
  \/ TestRule
  \/ RunAction
  \/ Defaults
  \/ After
  \/ Return
  \/ Raise
  \/ Finish

Spec == Init /\ [][Next]_vars

\* --------------------------------------- process as a function of x
\* The invocations the for loop over self._rules makes from rule n on.
RECURSIVE RuleEvents(_, _, _)
RuleEvents(rs, n, x) ==
  IF n > Len(rs)
    THEN <<>>
    ELSE LET c == Event("condition", rs[n].condition, n, <<x>>)
             a == Event("action", rs[n].action, n, <<x>>)
         IN  IF Matches(rs[n], x)
               THEN <<c, a>> \o (IF rs[n].last THEN <<>> ELSE RuleEvents(rs, n + 1, x))
               ELSE <<c>> \o RuleEvents(rs, n + 1, x)

\* The invocations a process(x) call that nothing aborts makes, in order.
ProcessEvents(x) ==
  LET fromRules == RuleEvents(rules, 1, x)
      notFound == \A n \in 1..Len(fromRules) : fromRules[n].kind # "action"
  IN  (IF IsSet(before_processing)
         THEN <<Event("before", before_processing, 0, <<x>>)>>
         ELSE <<>>)
      \o fromRules
      \o (IF notFound
            THEN [n \in 1..Len(defaults) |-> Event("default", defaults[n], n, <<x>>)]
            ELSE <<>>)
      \o (IF IsSet(after_processing)
            THEN <<Event("after", after_processing, 0, <<>>)>>
            ELSE <<>>)

\* The invocations of process(vs[1]); ...; process(vs[n]), one call after
\* the other.
RECURSIVE RepeatedProcess(_, _)
RepeatedProcess(vs, n) ==
  IF n = 0 THEN <<>> ELSE RepeatedProcess(vs, n - 1) \o ProcessEvents(vs[n])

\* ------------------------------------------------- get_fizz_buzz_values
\* output = []; rules = RuleSet()
InitFB ==
  /\ NewRuleSet("None", "None")
  /\ Idle
  /\ output = <<>>

\* A faulty registration: last=True is missing from the first rule.
FBRulesNoLast ==
  << Rule("mod15", "FizzBuzz", FALSE),
     Rule("mod3", "Fizz", FALSE),
     Rule("mod5", "Buzz", FALSE) >>

\* The three rules.add(...) calls, in program order.
FBRules ==
  << Rule("mod15", "FizzBuzz", TRUE),
     Rule("mod3", "Fizz", FALSE),
     Rule("mod5", "Buzz", FALSE) >>

\* rules.add(lambda x: x % 15 == 0, ..., last=True); rules.add(...); rules.add(...)
FBAdd ==
  /\ Len(rules) < Len(FBRules)
  /\ LET r == FBRules[Len(rules) + 1] IN Add(r.condition, r.action, r.last)

\* rules.add_default(lambda x: output.append(x))
FBAddDefault ==
  /\ Len(rules) = Len(FBRules)
  /\ defaults = <<>>
  /\ AddDefault("ident")

\* rules.process_many(range(1, 101))
FBProcessMany ==
  /\ Len(rules) = Len(FBRules)
  /\ Len(defaults) = 1
  /\ CallProcessMany(RangeValues)

NextFB ==
  \/ FBAdd
  \/ FBAddDefault
  \/ FBProcessMany
  \/ Before
  \/ TestRule
  \/ RunAction
  \/ Defaults
  \/ After
  \/ Return

SpecFB == InitFB /\ [][NextFB]_vars

\* ================================================================ claims
\* A process call is in progress (or has just raised).
InCall == pc \in {"before", "rules", "action", "defaults", "after", "return", "raised"}

\* The current process call has invoked the callable of this kind at
\* position idx.
Fired(kind, idx) == \E n \in 1..Len(log) : log[n].kind = kind /\ log[n].idx = idx

OfKind(kind) == SelectSeq(log, LAMBDA e : e.kind = kind)

IsPrefix(a, b) == Len(a) <= Len(b) /\ a = SubSeq(b, 1, Len(a))

\* rule.matches(x) was called for the rule at position r and returned true.
MatchedAt(r) ==
  /\ Fired("condition", r)
  /\ Matches(rules[r], CurX)
  /\ ~(exc.kind = "condition" /\ exc.idx = r)

\* ---------------------------------------------------------------- C1
FizzBuzzOf(N) ==
  IF N % 15 = 0 THEN StrVal("FizzBuzz")
  ELSE IF N % 3 = 0 THEN StrVal("Fizz")
  ELSE IF N % 5 = 0 THEN StrVal("Buzz")
  ELSE IntVal(N)

\* C1: get_fizz_buzz_values returns exactly 100 elements, element N-1 being
\* "FizzBuzz" for a multiple of 15, else "Fizz" for a multiple of 3, else
\* "Buzz" for a multiple of 5, else the integer N; while the range is being
\* processed every input processed so far has contributed exactly one
\* element, in input order.
C1_FizzBuzzOutput ==
  /\ \A N \in 1..Len(output) : output[N] = FizzBuzzOf(N)
  /\ Len(output) <= k
  /\ pc = "return" => Len(output) = k
  /\ pc = "done" => Len(output) = 100

C1_Witness ==
  /\ pc = "done"
  /\ call = "process_many"
  /\ Len(output) = 100
  /\ output[15] = StrVal("FizzBuzz")
  /\ output[100] = StrVal("Buzz")
  /\ output[98] = IntVal(98)

\* ---------------------------------------------------------------- C2
\* C2: at every point of get_fizz_buzz_values, every integer in the output
\* is a multiple neither of 3 nor of 5.
C2_IntegersAreNonMultiples ==
  \A n \in 1..Len(output) :
    output[n].tag = "int" => (output[n].n % 3 # 0 /\ output[n].n % 5 # 0)

C2_Witness ==
  /\ pc = "rules"
  /\ k = 52
  /\ output[49].tag = "int"
  /\ output[50].tag = "str"
  /\ output[51].tag = "str"

\* ---------------------------------------------------------------- C3
\* C3: in process(value), once a `last` rule R1 has matched the value,
\* R1's action fires and no rule added after R1 has its condition evaluated
\* or its action fired for that value.
C3_LastRuleStops ==
  InCall =>
    \A r1 \in 1..Len(rules) :
      (rules[r1].last /\ MatchedAt(r1)) =>
        /\ (pc = "action" /\ i = r1) \/ Fired("action", r1)
        /\ \A r2 \in (r1 + 1)..Len(rules) :
             ~Fired("condition", r2) /\ ~Fired("action", r2)

C3_Witness ==
  /\ pc = "return"
  /\ \E r1 \in 1..Len(rules), r2 \in 1..Len(rules) :
       /\ r1 < r2
       /\ rules[r1].last
       /\ MatchedAt(r1)
       /\ Matches(rules[r2], CurX)
       /\ Fired("action", r1)

\* ---------------------------------------------------------------- C4
AllDefaults(x) == [n \in 1..Len(defaults) |-> Event("default", defaults[n], n, <<x>>)]

NoRuleMatches(x) == \A r \in 1..Len(rules) : ~Matches(rules[r], x)

\* C4: in process(value), the default actions invoked so far are always the
\* first ones of the default list, each once, in the order added and with
\* the value; none is invoked once a rule has matched; and when the call
\* gets past the defaults, all of them have been invoked if no rule matches
\* the value and none otherwise.
C4_DefaultsIffNoMatch ==
  InCall =>
    /\ IsPrefix(OfKind("default"), AllDefaults(CurX))
    /\ (OfKind("action") # <<>> \/ pc = "action") => OfKind("default") = <<>>
    /\ OfKind("default") # <<>> => pc \in {"defaults", "after", "return", "raised"}
    /\ pc \in {"after", "return"} =>
         OfKind("default") = IF NoRuleMatches(CurX) THEN AllDefaults(CurX) ELSE <<>>

C4_Witness ==
  /\ pc = "return"
  /\ Len(rules) > 0
  /\ NoRuleMatches(CurX)
  /\ Len(defaults) = 2
  /\ defaults[1] # defaults[2]
  /\ OfKind("default") = AllDefaults(CurX)

\* ---------------------------------------------------------------- C5
\* The actions of the rules that match x, in the order the rules were added.
MatchingActions(x) ==
  SelectSeq([r \in 1..Len(rules) |-> Event("action", rules[r].action, r, <<x>>)],
            LAMBDA e : Matches(rules[e.idx], x))

\* C5: in a process(value) call that got past the rules, when none of the
\* rules that match the value is `last`, the actions invoked are exactly
\* those of the matching rules, each once, in the order the rules were added.
C5_AllMatchesFireInOrder ==
  (pc \in {"defaults", "after", "return"}
     /\ \A r \in 1..Len(rules) : Matches(rules[r], CurX) => ~rules[r].last)
  => OfKind("action") = MatchingActions(CurX)

C5_Witness ==
  /\ pc = "return"
  /\ Len(rules) = 2
  /\ \A r \in 1..2 : Matches(rules[r], CurX) /\ ~rules[r].last
  /\ rules[1].action # rules[2].action
  /\ Len(OfKind("action")) = 2

\* ---------------------------------------------------------------- C6
\* C6: the invocations of a process_many(values) call are those of
\* process(values[1]), ..., process(values[n]) made one after the other:
\* at every point the finished part is that of the elements before the
\* current one, the current process call is part way through its own, and
\* at the end every element has been processed once, in order.
C6_ProcessManyIsRepeatedProcess ==
  /\ InCall =>
       /\ trace = RepeatedProcess(xs, k - 1)
       /\ IsPrefix(log, ProcessEvents(CurX))
       /\ pc = "return" => log = ProcessEvents(CurX)
  /\ pc = "done" => trace = RepeatedProcess(xs, Len(xs))

C6_Witness ==
  /\ pc = "done"
  /\ call = "process_many"
  /\ Len(xs) = 2
  /\ xs[1] # xs[2]
  /\ Len(rules) = 2
  /\ Len(defaults) > 0
  /\ ProcessEvents(xs[1]) # ProcessEvents(xs[2])
  /\ trace = ProcessEvents(xs[1]) \o ProcessEvents(xs[2])

\* ---------------------------------------------------------------- C7
\* C7: when a callable raises during process(value), the invocation that
\* raised is the last one of the call, the exception reaches the caller as
\* raised, the values before the failing one are the only ones processed,
\* and the next thing that happens is the caller's: no rule, default, hook
\* or remaining value of the batch is processed.
C7_FailureAborts ==
  /\ [](exc # NoExc =>
          /\ pc = "raised"
          /\ log # <<>>
          /\ log[Len(log)] = exc
          /\ trace = RepeatedProcess(xs, k - 1))
  /\ [][exc # NoExc => (pc' = "idle" /\ log' = <<>> /\ trace' = <<>>)]_vars

C7_Witness ==
  /\ pc = "raised"
  /\ call = "process_many"
  /\ k < Len(xs)
  /\ exc.kind = "action"
  /\ exc.idx < Len(rules)
  /\ ~rules[exc.idx].last
  /\ Len(defaults) > 0
  /\ IsSet(after_processing)

\* ---------------------------------------------------------------- C8
\* C8 as stated: with zero rules and zero default actions, process(x)
\* invokes nothing and raises nothing.
C8_Original ==
  (call = "process" /\ rules = <<>> /\ defaults = <<>>) =>
    (log = <<>> /\ trace = <<>> /\ exc = NoExc)

\* C8 as amended: with zero rules, zero default actions and neither hook
\* set, process(x) invokes nothing and raises nothing.
C8_NoRulesNoDefaultsNoHooks ==
  (call = "process" /\ rules = <<>> /\ defaults = <<>>
     /\ before_processing = "None" /\ after_processing = "None") =>
    (log = <<>> /\ trace = <<>> /\ exc = NoExc /\ pc # "raised")

C8_Witness ==
  /\ call = "process"
  /\ pc = "done"
  /\ rules = <<>>
  /\ defaults = <<>>
  /\ before_processing = "None"
  /\ after_processing = "None"
  /\ trace = <<>>

\* ---------------------------------------------------------------- C9
\* C9: at every point, the rule sequence is the rules of the add calls in
\* call order, each with the condition, action and `last` given, and the
\* default sequence is the actions of the add_default calls in call order.
C9_RegistrationOnlyAppends ==
  /\ rules = [n \in 1..Len(addCalls) |->
                Rule(addCalls[n][1], addCalls[n][2], addCalls[n][3])]
  /\ defaults = defaultCalls

C9_Witness ==
  /\ pc = "return"
  /\ call = "process_many"
  /\ k = 2
  /\ Len(rules) = 2
  /\ rules[1] # rules[2]
  /\ rules[1].last
  /\ ~rules[2].last
  /\ Len(defaults) = 2
  /\ defaults[1] # defaults[2]

====
